---- MODULE Spec2Model ----
(***************************************************************************)
(* Model of REST/PhotoFrame/photoApi.js: the two paged accumulators        *)
(* libraryApiSearch and libraryApiGetAlbums, the parameters objects they   *)
(* mutate, and the transport (request-promise) answering each request.     *)
(*                                                                         *)
(* An async function runs without interruption from one await to the next, *)
(* so one action is the code between two awaits: a call runs up to its     *)
(* first request; a response runs the rest of the loop body, the loop test *)
(* and either the next request or the return.                              *)
(***************************************************************************)
EXTENDS Integers, Sequences, FiniteSets, TLC

(* ---------------------------- bounds ---------------------------------- *)

\* Requests the remote serves with a further page, over all calls; beyond
\* them every page it serves reports the end of the listing.
MaxRequests == 4

\* The calls the caller makes, one after another or concurrently.
CallId == {1, 2}
\* The parameters objects the caller owns and may pass to libraryApiSearch.
ParamId == {"pA", "pB"}

(* ---------------------------- JS values ------------------------------- *)

Null == "<null>"
Undefined == "<undefined>"

\* x == null (loose): true of null and of undefined.
LooseNull(v) == v \in {Null, Undefined}

\* Truthiness of a string-or-nullish value.
TruthyStr(s) == ~LooseNull(s) /\ s # ""

\* Truthiness of an object-or-nullish value, a record with a js tag.
Truthy(x) == x.js = "object"

\* String.prototype.startsWith
StartsWith(s, p) == Len(s) >= Len(p) /\ SubSeq(s, 1, Len(p)) = p

(* ---------------------------- remote data ----------------------------- *)

Item(i, m) == [js |-> "object", id |-> i, mimeType |-> m]
NullItem == [js |-> "null", id |-> 0, mimeType |-> Undefined]
UndefItem == [js |-> "undefined", id |-> 0, mimeType |-> Undefined]

\* A sparse page: images mixed with null, a video, items without an image
\* mime type.
PageMixed ==
    << Item(1, "image/jpeg"), NullItem, Item(2, "video/mp4"), UndefItem,
       Item(3, Undefined), Item(4, "image/png"), Item(5, "image"),
       Item(6, "") >>
\* A page of three valid images.
PageFull == << Item(7, "image/jpeg"), Item(8, "image/gif"), Item(9, "image/png") >>

Body(has, items, tok) ==
    [js |-> "object", hasItems |-> has, items |-> items, nextPageToken |-> tok]
NullBody == [js |-> "null", hasItems |-> FALSE, items |-> << >>, nextPageToken |-> Undefined]

\* Bodies the transport may resolve a search request with.
SearchBodies ==
    { Body(TRUE, PageFull, "tokA"), Body(TRUE, PageFull, Null),
      Body(TRUE, PageMixed, "tokB"), Body(TRUE, PageMixed, Undefined),
      Body(FALSE, << >>, "tokA"), NullBody }

Album(i) == [js |-> "object", id |-> i, mimeType |-> Undefined]
AlbumsMixed == << Album(1), NullItem, Album(2), UndefItem >>
AlbumsOne == << Album(3) >>

\* Bodies the transport may resolve an albums request with.
AlbumBodies ==
    { Body(TRUE, AlbumsMixed, "tokA"), Body(TRUE, AlbumsOne, Null),
      Body(TRUE, AlbumsOne, "tokB"), Body(TRUE, AlbumsMixed, Undefined),
      Body(FALSE, << >>, "tokB"), NullBody }

(* ---------------------------- failures -------------------------------- *)

NoError == [js |-> "null", name |-> Undefined, code |-> Undefined, message |-> Undefined]
UndefError == [js |-> "undefined", name |-> Undefined, code |-> Undefined, message |-> Undefined]
ErrorShape(n, c, m) == [js |-> "object", name |-> n, code |-> c, message |-> m]

\* err.error of a failure: absent, or a value with its own error property.
NoErrorField == [js |-> "undefined", error |-> UndefError]
ErrorField(nested) == [js |-> "object", error |-> nested]

Failure(n, sc, m, e) == [name |-> n, statusCode |-> sc, message |-> m, error |-> e]

RemoteError == ErrorShape("X", "403", "Forbidden")

\* Failures the transport may reject a request with: a StatusCodeError whose
\* body carries error.error, a RequestError whose error is the cause, a
\* StatusCodeError whose body has a null error property, and a failure that
\* has no error property.
Failures ==
    { Failure("StatusCodeError", "403", "403 - Forbidden", ErrorField(RemoteError)),
      Failure("RequestError", Undefined, "ECONNRESET", ErrorField(UndefError)),
      Failure("StatusCodeError", "500", "500 - null", ErrorField(NoError)),
      Failure("Error", Undefined, "boom", NoErrorField) }

\* What reading a property of null/undefined raises inside the try block.
TypeErrorFailure == Failure("TypeError", Undefined, "Cannot read property", NoErrorField)

(* ---------------------------- configuration -------------------------- *)

\* config.searchPageSize and config.albumPageSize: config.js sets them; the
\* code only copies them into the requests.
SearchPageSize == 100
AlbumPageSize == 50
\* Values of config.photosToLoad the model is run with.
Thresholds == {-1, 0, 5}
\* pageSize the caller left in each parameters object (0: none).
CallerPageSize == [p \in ParamId |-> IF p = "pA" THEN 0 ELSE 25]

(* ---------------------------- state ----------------------------------- *)

VARIABLES
    logger,        \* whether setLogger has installed a logger
    photosToLoad,  \* config.photosToLoad
    heap,          \* the caller's parameters objects: pageSize, pageToken
    kind,          \* per call: "none", "search" or "albums"
    pc,            \* per call: "idle", "awaiting", "returned", "thrown"
    acc,           \* per call: the local photos / albums list
    error,         \* per call: the local error
    pref,          \* per search call: the parameters object it was given
    aparams,       \* per albums call: its local parameters object
    sent,          \* per call: the requests issued, as serialized when issued
    resps,         \* per call: the responses the transport gave, in order
    overlapped     \* per call: the calls that were in flight while it was

vars == << logger, photosToLoad, heap, kind, pc, acc, error, pref, aparams,
           sent, resps, overlapped >>

Parameters(size, tok) == [pageSize |-> size, pageToken |-> tok]

\* The transport serializes the parameters when the request is issued.
Request(api, parameters) ==
    [api |-> api, pageSize |-> parameters.pageSize, pageToken |-> parameters.pageToken]

\* Mutants of the request step: the page token not passed on; the next
\* page fetched ahead, two requests at once.
IssuedWithoutToken(reqs, api, parameters) ==
    Append(reqs, [Request(api, parameters) EXCEPT !.pageToken = Undefined])
IssuedTwice(reqs, api, parameters) ==
    Append(Append(reqs, Request(api, parameters)), Request(api, parameters))

\* await request.post(..., { json: parameters }) / request.get(..., { qs:
\* parameters }): one request joins those the call has issued.
Issued(reqs, api, parameters) == Append(reqs, Request(api, parameters))

OkResponse(result) == [ok |-> TRUE, result |-> result, err |-> TypeErrorFailure]
FailResponse(err) == [ok |-> FALSE, result |-> NullBody, err |-> err]

Init ==
    /\ logger = FALSE
    /\ photosToLoad \in Thresholds
    /\ heap = [p \in ParamId |-> Parameters(CallerPageSize[p], Undefined)]
    /\ kind = [c \in CallId |-> "none"]
    /\ pc = [c \in CallId |-> "idle"]
    /\ acc = [c \in CallId |-> << >>]
    /\ error = [c \in CallId |-> NoError]
    /\ pref = [c \in CallId |-> "pA"]
    /\ aparams = [c \in CallId |-> Parameters(0, Undefined)]
    /\ sent = [c \in CallId |-> << >>]
    /\ resps = [c \in CallId |-> << >>]
    /\ overlapped = [c \in CallId |-> {}]

(* ---------------------------- pure parts of the code ------------------ *)

\* Mutant of the media item filter: the mime type filter left out.
FilterImagesNoMimeType(items) == SelectSeq(items, Truthy)

\* result.mediaItems.filter(x => x)
\*     .filter(x => x.mimeType && x.mimeType.startsWith('image/'))
FilterImages(items) ==
    SelectSeq(SelectSeq(items, Truthy),
              LAMBDA x : TruthyStr(x.mimeType) /\ StartsWith(x.mimeType, "image/"))

\* const items = result && result.mediaItems ? ... : [];
SearchItems(result) ==
    IF Truthy(result) /\ result.hasItems THEN FilterImages(result.items) ELSE << >>

\* result.albums.filter(x => !!x)
FilterAlbums(items) == SelectSeq(items, Truthy)

\* if (result && result.albums) { albums = albums.concat(items) }
AlbumItems(result) ==
    IF Truthy(result) /\ result.hasItems THEN FilterAlbums(result.items) ELSE << >>

\* Mutants of the search loop test: the token test dropped; <= for <.
SearchContinuesNoToken(photos, pageToken) == Len(photos) < photosToLoad
SearchContinuesInclusive(photos, pageToken) ==
    Len(photos) <= photosToLoad /\ ~LooseNull(pageToken)

\* while (photos.length < config.photosToLoad && parameters.pageToken != null)
SearchContinues(photos, pageToken) ==
    Len(photos) < photosToLoad /\ ~LooseNull(pageToken)

\* Mutants of the albums loop test: !== for !=; == for !=.
AlbumsContinuesStrict(pageToken) == pageToken # Null
AlbumsContinuesInverted(pageToken) == LooseNull(pageToken)

\* while (parameters.pageToken != null)
AlbumsContinues(pageToken) == ~LooseNull(pageToken)

\* error = err.error.error || { name, code, message }; reading .error of an
\* absent err.error throws inside the catch block.
NormalizeError(err) ==
    IF ~Truthy(err.error)
    THEN [thrown |-> TRUE, error |-> NoError]
    ELSE [thrown |-> FALSE,
          error |-> IF Truthy(err.error.error)
                    THEN err.error.error
                    ELSE ErrorShape(err.name, err.statusCode, err.message)]

\* Mutant of the catch block: the failure swallowed and the loop resumed.
CaughtAndRetried(err) == [pc |-> "awaiting", error |-> NoError]

\* The catch block and the code after it: where the call ends, with which
\* error.  logger.error / logger.info throw when no logger is installed.
Caught(err) ==
    LET n == NormalizeError(err)
    IN  IF n.thrown \/ ~logger
        THEN [pc |-> "thrown", error |-> NoError]
        ELSE [pc |-> "returned", error |-> n.error]

\* Mutant of the page size assignment: the configured size used only when
\* the caller gave none.
PageSizeDefaulted(parameters) ==
    IF parameters.pageSize = 0
    THEN [parameters EXCEPT !.pageSize = SearchPageSize]
    ELSE parameters

\* parameters.pageSize = config.searchPageSize;
PageSizeSet(parameters) == [parameters EXCEPT !.pageSize = SearchPageSize]

\* Mutant of the parameters binding: one object shared by all searches.
ParamsRefShared(c) == "pA"

\* The object the name `parameters` is bound to in search call c: the one
\* the caller passed.
ParamsRef(c) == pref[c]

\* Mutant of the albums parameters: taken from a shared object instead of a
\* fresh literal.
SharedAlbumParameters(c) == [heap["pA"] EXCEPT !.pageSize = AlbumPageSize]

\* let parameters = { pageSize: config.albumPageSize };
InitialAlbumParameters(c) == Parameters(AlbumPageSize, Undefined)

\* Call c suspends at its first await: the calls in flight at that moment
\* and c run concurrently from here on.
Overlap(c) ==
    [d \in CallId |->
        IF d = c THEN {e \in CallId \ {c} : pc[e] = "awaiting"}
        ELSE IF pc[d] = "awaiting" THEN overlapped[d] \cup {c}
        ELSE overlapped[d]]

(* ---------------------------- operations ------------------------------ *)

\* photoApi.setLogger
SetLogger ==
    /\ logger = FALSE
    /\ logger' = TRUE
    /\ UNCHANGED << photosToLoad, heap, kind, pc, acc, error, pref, aparams,
                    sent, resps, overlapped >>

RECURSIVE SumLen(_, _)
SumLen(f, S) ==
    IF S = {} THEN 0
    ELSE LET c == CHOOSE x \in S : TRUE IN Len(f[c]) + SumLen(f, S \ {c})

\* Requests issued so far, over all calls.
TotalSent == SumLen(sent, CallId)

\* The remote's listings are finite: once MaxRequests requests were issued,
\* every page it serves reports the end of the listing.
Served(c, result) == LooseNull(result.nextPageToken) \/ TotalSent < MaxRequests

\* libraryApiSearch(authToken, parameters), to its first await: the caller
\* passes parameters object p.  Without a logger, logger.info throws a
\* TypeError inside the try block.
CallSearch(c, p) ==
    /\ pc[c] = "idle"
    /\ kind' = [kind EXCEPT ![c] = "search"]
    /\ pref' = [pref EXCEPT ![c] = p]
    /\ acc' = [acc EXCEPT ![c] = << >>]
    /\ heap' = [heap EXCEPT ![p] = PageSizeSet(@)]
    /\ IF logger
       THEN /\ sent' = [sent EXCEPT ![c] = Issued(@, "search", heap'[p])]
            /\ pc' = [pc EXCEPT ![c] = "awaiting"]
            /\ error' = [error EXCEPT ![c] = NoError]
            /\ overlapped' = Overlap(c)
       ELSE /\ sent' = sent
            /\ pc' = [pc EXCEPT ![c] = Caught(TypeErrorFailure).pc]
            /\ error' = [error EXCEPT ![c] = Caught(TypeErrorFailure).error]
            /\ overlapped' = overlapped
    /\ UNCHANGED << logger, photosToLoad, aparams, resps >>

\* The search request of call c resolves with result: the rest of the loop
\* body, the loop test, and the next request or the return.  A null result
\* passes the items line and throws a TypeError at result.nextPageToken.
SearchResponse(c, result) ==
    /\ pc[c] = "awaiting" /\ kind[c] = "search"
    /\ Served(c, result)
    /\ resps' = [resps EXCEPT ![c] = Append(@, OkResponse(result))]
    /\ acc' = [acc EXCEPT ![c] = @ \o SearchItems(result)]
    /\ IF ~Truthy(result)
       THEN /\ pc' = [pc EXCEPT ![c] = Caught(TypeErrorFailure).pc]
            /\ error' = [error EXCEPT ![c] = Caught(TypeErrorFailure).error]
            /\ UNCHANGED << heap, sent >>
       ELSE /\ heap' = [heap EXCEPT ![ParamsRef(c)].pageToken = result.nextPageToken]
            /\ IF SearchContinues(acc'[c], heap'[ParamsRef(c)].pageToken)
               THEN /\ sent' = [sent EXCEPT
                                  ![c] = Issued(@, "search", heap'[ParamsRef(c)])]
                    /\ UNCHANGED << pc, error >>
               ELSE /\ pc' = [pc EXCEPT ![c] = "returned"]
                    /\ UNCHANGED << sent, error >>
    /\ UNCHANGED << logger, photosToLoad, kind, pref, aparams, overlapped >>

\* The search request of call c is rejected with err: the catch block.
SearchFailure(c, err) ==
    /\ pc[c] = "awaiting" /\ kind[c] = "search"
    /\ resps' = [resps EXCEPT ![c] = Append(@, FailResponse(err))]
    /\ pc' = [pc EXCEPT ![c] = Caught(err).pc]
    /\ error' = [error EXCEPT ![c] = Caught(err).error]
    /\ UNCHANGED << logger, photosToLoad, heap, kind, acc, pref, aparams, sent,
                    overlapped >>

\* libraryApiGetAlbums(authToken), to its first await.
CallAlbums(c) ==
    /\ pc[c] = "idle"
    /\ kind' = [kind EXCEPT ![c] = "albums"]
    /\ acc' = [acc EXCEPT ![c] = << >>]
    /\ aparams' = [aparams EXCEPT ![c] = InitialAlbumParameters(c)]
    /\ IF logger
       THEN /\ sent' = [sent EXCEPT ![c] = Issued(@, "albums", aparams'[c])]
            /\ pc' = [pc EXCEPT ![c] = "awaiting"]
            /\ error' = [error EXCEPT ![c] = NoError]
            /\ overlapped' = Overlap(c)
       ELSE /\ sent' = sent
            /\ pc' = [pc EXCEPT ![c] = Caught(TypeErrorFailure).pc]
            /\ error' = [error EXCEPT ![c] = Caught(TypeErrorFailure).error]
            /\ overlapped' = overlapped
    /\ UNCHANGED << logger, photosToLoad, heap, pref, resps >>

\* The albums request of call c resolves with result.
AlbumsResponse(c, result) ==
    /\ pc[c] = "awaiting" /\ kind[c] = "albums"
    /\ Served(c, result)
    /\ resps' = [resps EXCEPT ![c] = Append(@, OkResponse(result))]
    /\ acc' = [acc EXCEPT ![c] = @ \o AlbumItems(result)]
    /\ IF ~Truthy(result)
       THEN /\ pc' = [pc EXCEPT ![c] = Caught(TypeErrorFailure).pc]
            /\ error' = [error EXCEPT ![c] = Caught(TypeErrorFailure).error]
            /\ UNCHANGED << aparams, sent >>
       ELSE /\ aparams' = [aparams EXCEPT ![c].pageToken = result.nextPageToken]
            /\ IF AlbumsContinues(aparams'[c].pageToken)
               THEN /\ sent' = [sent EXCEPT
                                  ![c] = Issued(@, "albums", aparams'[c])]
                    /\ UNCHANGED << pc, error >>
               ELSE /\ pc' = [pc EXCEPT ![c] = "returned"]
                    /\ UNCHANGED << sent, error >>
    /\ UNCHANGED << logger, photosToLoad, heap, kind, pref, overlapped >>

\* The albums request of call c is rejected with err: the catch block.
AlbumsFailure(c, err) ==
    /\ pc[c] = "awaiting" /\ kind[c] = "albums"
    /\ resps' = [resps EXCEPT ![c] = Append(@, FailResponse(err))]
    /\ pc' = [pc EXCEPT ![c] = Caught(err).pc]
    /\ error' = [error EXCEPT ![c] = Caught(err).error]
    /\ UNCHANGED << logger, photosToLoad, heap, kind, acc, pref, aparams, sent,
                    overlapped >>

Next ==
    \/ SetLogger
    \/ \E c \in CallId, p \in ParamId : CallSearch(c, p)
    \/ \E c \in CallId, result \in SearchBodies : SearchResponse(c, result)
    \/ \E c \in CallId, err \in Failures : SearchFailure(c, err)
    \/ \E c \in CallId : CallAlbums(c)
    \/ \E c \in CallId, result \in AlbumBodies : AlbumsResponse(c, result)
    \/ \E c \in CallId, err \in Failures : AlbumsFailure(c, err)

Spec == Init /\ [][Next]_vars

(* ---------------------------- reading a call's history ---------------- *)

Started(c) == kind[c] # "none"
Done(c) == pc[c] \in {"returned", "thrown"}
NumResponses(c) == Len(resps[c])
LastResponse(c) == resps[c][Len(resps[c])]

\* The request of the call's last iteration failed.
RequestFailed(c) == resps[c] # << >> /\ ~LastResponse(c).ok

\* Every request of the call so far resolved with an object body.
AllResolved(c) ==
    \A i \in 1..Len(resps[c]) : resps[c][i].ok /\ resps[c][i].result.js = "object"

\* What the claims call a valid image and a valid album.
ValidImage(x) ==
    /\ x.js = "object"
    /\ x.mimeType \notin {Null, Undefined}
    /\ Len(x.mimeType) >= 6
    /\ SubSeq(x.mimeType, 1, 6) = "image/"
ValidAlbum(x) == x.js \notin {"null", "undefined"}

\* The valid items of response r of a call of kind kd.
ValidOfPage(kd, r) ==
    IF r.ok /\ r.result.js = "object" /\ r.result.hasItems
    THEN IF kd = "search" THEN SelectSeq(r.result.items, ValidImage)
                          ELSE SelectSeq(r.result.items, ValidAlbum)
    ELSE << >>

\* The valid items of the first k responses of call c, in order.
RECURSIVE ValidUpTo(_, _)
ValidUpTo(c, k) ==
    IF k = 0 THEN << >> ELSE ValidUpTo(c, k - 1) \o ValidOfPage(kind[c], resps[c][k])

\* The record a finished call hands back: parameters is the caller's object.
SearchResult(c) == [photos |-> acc[c], parameters |-> heap[ParamsRef(c)], error |-> error[c]]
AlbumsResult(c) == [albums |-> acc[c], error |-> error[c]]

(* ---------------------------- C1 -------------------------------------- *)

\* C1: whatever failure a request of a search or albums call raises, the
\* call does not throw: it ends by returning its result record.
C1_FailuresNeverPropagate ==
    \A c \in CallId : RequestFailed(c) => pc[c] = "returned"

(* ---------------------------- C2 -------------------------------------- *)

\* C2: when the request of iteration k fails, the call returns a non-null
\* error and a list that is exactly the valid items of the k-1 earlier
\* responses, in order.
C2_PartialResultsReturned ==
    \A c \in CallId :
        RequestFailed(c) =>
            /\ pc[c] = "returned"
            /\ error[c].js = "object"
            /\ acc[c] = ValidUpTo(c, NumResponses(c) - 1)

(* ---------------------------- C3 -------------------------------------- *)

\* The error the claims expect for failure err.
ExpectedError(err) ==
    IF err.error.js = "object" /\ err.error.error.js = "object"
    THEN err.error.error
    ELSE [js |-> "object", name |-> err.name, code |-> err.statusCode,
          message |-> err.message]

\* C3: the returned error is the failure's nested error.error when it has
\* one, and {name, code, message} of the failure in every other case, a
\* failure without an error field included.
C3_ErrorNormalized ==
    \A c \in CallId :
        RequestFailed(c) =>
            pc[c] = "returned" /\ error[c] = ExpectedError(LastResponse(c).err)

(* ---------------------------- C4 -------------------------------------- *)

\* The next-page token of the i-th response of call c.
TokenOf(c, i) == resps[c][i].result.nextPageToken
HasToken(c, i) == TokenOf(c, i) \notin {Null, Undefined}

\* The last request of the call resolved with an object body.
LastResolved(c) ==
    resps[c] # << >> /\ LastResponse(c).ok /\ LastResponse(c).result.js = "object"

\* One more request than responses: the loop has issued the next request.
NextRequestIssued(c) == pc[c] = "awaiting" /\ Len(sent[c]) = NumResponses(c) + 1
\* As many requests as responses, and the call has returned.
ReturnedWithoutRequest(c) == pc[c] = "returned" /\ Len(sent[c]) = NumResponses(c)

\* C4: after a successful search response, another request is issued if the
\* response has a next-page token and fewer than photosToLoad photos are
\* accumulated, and no request is issued otherwise.
C4_SearchLoopTest ==
    \A c \in CallId :
        kind[c] = "search" /\ LastResolved(c) =>
            IF HasToken(c, NumResponses(c)) /\ Len(acc[c]) < photosToLoad
            THEN NextRequestIssued(c)
            ELSE ReturnedWithoutRequest(c)

\* A search that went on after a response, and one that stopped on the
\* threshold although a token was supplied.
C4_Witness ==
    \E c, d \in CallId :
        /\ kind[c] = "search" /\ LastResolved(c) /\ NextRequestIssued(c)
        /\ Len(acc[c]) > 0
        /\ kind[d] = "search" /\ LastResolved(d) /\ pc[d] = "returned"
        /\ HasToken(d, NumResponses(d)) /\ NumResponses(d) > 1

(* ---------------------------- C5 -------------------------------------- *)

\* C5: a search without failure returns, unsliced, the valid images of all
\* the pages it fetched, and the number of pages fetched is the least k
\* after which the count is >= photosToLoad or the token is null.
C5_StopsAtThresholdUnsliced ==
    \A c \in CallId :
        kind[c] = "search" /\ pc[c] = "returned" /\ AllResolved(c) =>
            LET k == NumResponses(c)
            IN  /\ k >= 1 /\ Len(sent[c]) = k
                /\ error[c] = NoError
                /\ acc[c] = ValidUpTo(c, k)
                /\ \A j \in 1..(k - 1) :
                       Len(ValidUpTo(c, j)) < photosToLoad /\ HasToken(c, j)
                /\ Len(ValidUpTo(c, k)) >= photosToLoad \/ ~HasToken(c, k)

\* The scenario of the specification: threshold 5, three valid images per
\* page, more pages left: two requests, six photos, no error.
C5_Witness ==
    \E c \in CallId :
        /\ kind[c] = "search" /\ pc[c] = "returned" /\ photosToLoad = 5
        /\ Len(sent[c]) = 2 /\ Len(acc[c]) = 6 /\ error[c] = NoError
        /\ \A j \in 1..2 : resps[c][j].ok /\ resps[c][j].result.items = PageFull
        /\ HasToken(c, 2)

(* ---------------------------- C6 -------------------------------------- *)

\* C6: in both accumulators a successful response without a next-page token
\* (null or absent) is the last one: its valid items are appended, no
\* request follows and the call returns.
C6_NullTokenEndsLoop ==
    \A c \in CallId :
        Started(c) /\ LastResolved(c) /\ ~HasToken(c, NumResponses(c)) =>
            /\ ReturnedWithoutRequest(c)
            /\ AllResolved(c) => acc[c] = ValidUpTo(c, NumResponses(c))

\* A search ended by a null token and an albums listing ended by an absent
\* one, each after more than one page.
C6_Witness ==
    \E c, d \in CallId :
        /\ kind[c] = "search" /\ pc[c] = "returned" /\ NumResponses(c) > 1
        /\ LastResolved(c) /\ TokenOf(c, NumResponses(c)) = Null
        /\ Len(acc[c]) < photosToLoad
        /\ kind[d] = "albums" /\ pc[d] = "returned" /\ NumResponses(d) > 1
        /\ LastResolved(d) /\ TokenOf(d, NumResponses(d)) = Undefined

(* ---------------------------- C7 -------------------------------------- *)

\* C7: in every state the photos list holds only non-null items whose
\* mimeType starts with "image/", and the albums list holds no null or
\* undefined entry.
C7_OnlyValidEntries ==
    \A c \in CallId :
        \A i \in 1..Len(acc[c]) :
            IF kind[c] = "search" THEN ValidImage(acc[c][i]) ELSE ValidAlbum(acc[c][i])

\* Sparse pages were processed by a search and by an albums listing.
C7_Witness ==
    \E c, d \in CallId :
        /\ kind[c] = "search" /\ Len(acc[c]) = 2
        /\ resps[c][1].ok /\ resps[c][1].result.items = PageMixed
        /\ kind[d] = "albums" /\ Len(acc[d]) = 2
        /\ resps[d][1].ok /\ resps[d][1].result.items = AlbumsMixed

(* ---------------------------- C8 -------------------------------------- *)

\* C8: an albums listing without failure returns the non-null albums of
\* every page up to and including the first page without a next-page token,
\* in order; no count stops it early, and a page without an albums field
\* adds nothing and does not stop it.
C8_AllAlbumsCollected ==
    \A c \in CallId :
        kind[c] = "albums" /\ pc[c] = "returned" /\ AllResolved(c) =>
            LET k == NumResponses(c)
            IN  /\ k >= 1 /\ Len(sent[c]) = k
                /\ error[c] = NoError
                /\ acc[c] = ValidUpTo(c, k)
                /\ \A j \in 1..(k - 1) : HasToken(c, j)
                /\ ~HasToken(c, k)

\* Four pages, one of them without an albums field, more albums than
\* photosToLoad.
C8_Witness ==
    \E c \in CallId :
        /\ kind[c] = "albums" /\ pc[c] = "returned" /\ error[c] = NoError
        /\ NumResponses(c) >= 3 /\ AllResolved(c)
        /\ \E j \in 1..(NumResponses(c) - 1) : ~resps[c][j].result.hasItems
        /\ photosToLoad = 5 /\ Len(acc[c]) >= photosToLoad

(* ---------------------------- C9 -------------------------------------- *)

\* The page token carried by the first request of call c.
FirstToken(c) == sent[c][1].pageToken

\* No other search call was ever given the parameters object of call c; an
\* albums call builds its own object.
OwnParameters(c) ==
    kind[c] = "search" =>
        \A d \in CallId \ {c} : kind[d] = "search" => pref[d] # pref[c]

\* C9 as claimed: whatever the earlier calls were, parameters reused or
\* not, the first request of a call carries no page token left by them.
C9_TokenDoesNotPersist ==
    \A c \in CallId : sent[c] # << >> => FirstToken(c) = Undefined

\* Call c enters libraryApiSearch in this step and issues its first request.
SearchEntered(c) ==
    pc[c] = "idle" /\ pc'[c] = "awaiting" /\ kind'[c] = "search"

\* C9 as amended: an albums call, and a search whose parameters object no
\* other search was given, send no page token in the first request; the
\* first request of any search sends the page token that the caller's
\* parameters object holds on entry, a token left by an earlier search
\* included.
C9_TokenPersistsInParameters ==
    /\ [](\A c \in CallId :
              sent[c] # << >> /\ OwnParameters(c) => FirstToken(c) = Undefined)
    /\ [][\A c \in CallId :
              SearchEntered(c) => sent'[c][1].pageToken = heap[pref'[c]].pageToken]_vars

\* A finished search left a token in its parameters, which a later search
\* was given and sent in its first request.
C9_Witness ==
    \E c, d \in CallId :
        /\ c # d /\ kind[c] = "search" /\ pc[c] = "returned"
        /\ overlapped[c] = {} /\ overlapped[d] = {}
        /\ kind[d] = "search" /\ pref[d] = pref[c] /\ sent[d] # << >>
        /\ FirstToken(c) = Undefined /\ FirstToken(d) = "tokA"

(* ---------------------------- C10 ------------------------------------- *)

\* Each request after the first carries the token of the response before it.
RoundTrip(c) ==
    \A i \in 1..(Len(sent[c]) - 1) : sent[c][i + 1].pageToken = TokenOf(c, i)

\* The last token returned to call c, undefined when none was.
RECURSIVE LastTokenUpTo(_, _)
LastTokenUpTo(c, k) ==
    IF k = 0 THEN Undefined
    ELSE IF resps[c][k].ok /\ resps[c][k].result.js = "object"
         THEN TokenOf(c, k)
         ELSE LastTokenUpTo(c, k - 1)

\* The error a call run alone returns after its responses.
AloneError(c) ==
    IF RequestFailed(c) THEN ExpectedError(LastResponse(c).err) ELSE NoError

\* What call c returns when it is the only call, from its responses alone.
AloneResult(c) ==
    IF kind[c] = "search"
    THEN [photos |-> ValidUpTo(c, NumResponses(c)),
          parameters |-> [pageSize |-> SearchPageSize,
                          pageToken |-> LastTokenUpTo(c, NumResponses(c))],
          error |-> AloneError(c)]
    ELSE [albums |-> ValidUpTo(c, NumResponses(c)), error |-> AloneError(c)]

\* What call c returned; parameters is the object the caller passed.
Result(c) ==
    IF kind[c] = "search"
    THEN [photos |-> acc[c], parameters |-> heap[pref[c]], error |-> error[c]]
    ELSE [albums |-> acc[c], error |-> error[c]]

\* Call c sent only tokens returned to itself, and returned what it returns
\* when run alone.
NoCrossTalk(c) ==
    /\ FirstToken(c) = Undefined
    /\ RoundTrip(c)
    /\ pc[c] = "returned" => Result(c) = AloneResult(c)

\* C10 as claimed: calls that ran concurrently, whatever they were given,
\* do not affect each other.
C10_ConcurrentCallsIndependent ==
    \A c \in CallId : overlapped[c] # {} => NoCrossTalk(c)

\* C10 as amended: a call does not affect and is not affected by other
\* calls, concurrent or not, provided no other search was given the same
\* parameters object.
C10_IndependentWithOwnParameters ==
    \A c \in CallId : sent[c] # << >> /\ OwnParameters(c) => NoCrossTalk(c)

\* Two searches with a parameters object each, and a search beside an albums
\* listing, ran concurrently through several pages and returned.
C10_Witness ==
    \E c, d \in CallId :
        /\ c # d /\ d \in overlapped[c] /\ kind[c] = "search"
        /\ OwnParameters(c) /\ OwnParameters(d)
        /\ pc[c] = "returned" /\ pc[d] = "returned"
        /\ NumResponses(c) > 1 /\ NumResponses(d) > 1
        /\ LastTokenUpTo(c, NumResponses(c)) # LastTokenUpTo(d, NumResponses(d))

(* ---------------------------- C11 ------------------------------------- *)

\* Every request of the call was answered by the transport with a body,
\* whatever the body.
AllAnswered(c) == \A i \in 1..Len(resps[c]) : resps[c][i].ok

\* C11: a call that has ended after issuing requests returned, and its
\* error is null exactly when none of its requests failed, whatever the
\* bodies of the successful responses were.
C11_ErrorNullIffNoFailure ==
    \A c \in CallId :
        Done(c) /\ sent[c] # << >> =>
            /\ pc[c] = "returned"
            /\ error[c] = NoError <=> AllAnswered(c)

(* ---------------------------- C12 ------------------------------------- *)

\* C12: a call has at most one request outstanding, and none once it has
\* ended; when request k+1 is outstanding, response k has been filtered and
\* appended and its token is the one request k+1 carries.
C12_OneOutstandingRequest ==
    \A c \in CallId :
        /\ Len(sent[c]) - NumResponses(c) = IF pc[c] = "awaiting" THEN 1 ELSE 0
        /\ pc[c] = "awaiting" =>
              /\ AllResolved(c)
              /\ acc[c] = ValidUpTo(c, NumResponses(c))
              /\ NumResponses(c) > 0 =>
                    sent[c][Len(sent[c])].pageToken = TokenOf(c, NumResponses(c))

\* Both kinds of call have taken in one page and wait for the next.
C12_Witness ==
    \E c, d \in CallId :
        /\ kind[c] = "search" /\ pc[c] = "awaiting" /\ NumResponses(c) = 1
        /\ kind[d] = "albums" /\ pc[d] = "awaiting" /\ NumResponses(d) = 1
        /\ Len(acc[c]) > 0 /\ Len(acc[d]) > 0

(* ---------------------------- C13 ------------------------------------- *)

\* C13: a failed request ends the call; from then on the call issues no
\* request, receives no response and stays ended, whatever the count and
\* the stored page token.
C13_FailureIsTerminal ==
    /\ [](\A c \in CallId :
              RequestFailed(c) => Done(c) /\ Len(sent[c]) = NumResponses(c))
    /\ [][\A c \in CallId :
              RequestFailed(c) =>
                  sent'[c] = sent[c] /\ resps'[c] = resps[c] /\ pc'[c] = pc[c]]_vars

\* A search and an albums listing failed at a later page, the search below
\* the threshold, both with a page token stored for the failed request.
C13_Witness ==
    \E c, d \in CallId :
        /\ kind[c] = "search" /\ RequestFailed(c) /\ NumResponses(c) > 1
        /\ HasToken(c, NumResponses(c) - 1) /\ Len(acc[c]) < photosToLoad
        /\ heap[pref[c]].pageToken = TokenOf(c, NumResponses(c) - 1)
        /\ kind[d] = "albums" /\ RequestFailed(d) /\ NumResponses(d) > 1
        /\ ~LooseNull(aparams[d].pageToken)

(* ---------------------------- C14 ------------------------------------- *)

\* C14: every request after the first carries, unmodified, the next-page
\* token of the response just before it.
C14_TokenRoundTrip ==
    \A c \in CallId :
        \A i \in 1..(Len(sent[c]) - 1) :
            HasToken(c, i) /\ sent[c][i + 1].pageToken = TokenOf(c, i)

\* A call sent three requests, the second and third with the two different
\* tokens of its first and second response.
C14_Witness ==
    \E c \in CallId :
        /\ Len(sent[c]) = 3 /\ NumResponses(c) >= 2
        /\ sent[c][1].pageToken = Undefined
        /\ sent[c][2].pageToken = TokenOf(c, 1)
        /\ sent[c][3].pageToken = TokenOf(c, 2)
        /\ TokenOf(c, 1) # TokenOf(c, 2)

(* ---------------------------- C15 ------------------------------------- *)

\* The request of search call c fails in this step.
SearchFails(c) ==
    /\ kind[c] = "search" /\ pc[c] = "awaiting"
    /\ Len(resps'[c]) = Len(resps[c]) + 1
    /\ ~resps'[c][Len(resps'[c])].ok

\* The page token carried by the last request call c issued.
LastSentToken(c) == sent[c][Len(sent[c])].pageToken

\* C15 as claimed: when a search returns after a failed request, the
\* parameters it returns hold the page token that the failed request
\* carried, and photos is what it was before the failed iteration.
C15_FailureReturnsLastUsedParameters ==
    [][\A c \in CallId :
           SearchFails(c) /\ pc'[c] = "returned" =>
               /\ heap'[pref[c]].pageToken = LastSentToken(c)
               /\ acc'[c] = acc[c]]_vars

\* C15 as amended: the failed iteration itself changes neither the
\* parameters objects nor photos; and if no other search was given the same
\* parameters object, the parameters hold the page token that the failed
\* request carried and photos holds the valid images of the earlier pages.
C15_FailureChangesNothing ==
    /\ [][\A c \in CallId : SearchFails(c) => heap' = heap /\ acc'[c] = acc[c]]_vars
    /\ [](\A c \in CallId :
              kind[c] = "search" /\ RequestFailed(c) /\ OwnParameters(c) =>
                  /\ heap[pref[c]].pageToken = LastSentToken(c)
                  /\ acc[c] = ValidUpTo(c, NumResponses(c) - 1))

\* A search with a parameters object of its own failed at its third request
\* and returned the photos and the token of the two pages before.
C15_Witness ==
    \E c \in CallId :
        /\ kind[c] = "search" /\ OwnParameters(c) /\ pc[c] = "returned"
        /\ RequestFailed(c) /\ NumResponses(c) = 3
        /\ Len(acc[c]) > 0 /\ error[c] # NoError
        /\ heap[pref[c]].pageToken = TokenOf(c, 2)
        /\ LastSentToken(c) = TokenOf(c, 2)

(* ---------------------------- C16 ------------------------------------- *)

\* C16: every search request carries config.searchPageSize, whatever page
\* size the caller left in the parameters, and every albums request carries
\* config.albumPageSize.
C16_ConfiguredPageSize ==
    \A c \in CallId :
        \A i \in 1..Len(sent[c]) :
            sent[c][i].pageSize =
                IF kind[c] = "search" THEN SearchPageSize ELSE AlbumPageSize

\* A search given the parameters that held the caller's own page size sent
\* two requests; an albums listing sent two as well.
C16_Witness ==
    \E c, d \in CallId :
        /\ kind[c] = "search" /\ pref[c] = "pB" /\ CallerPageSize["pB"] # SearchPageSize
        /\ Len(sent[c]) = 2
        /\ kind[d] = "albums" /\ Len(sent[d]) = 2

(* ---------------------------- C17 ------------------------------------- *)

\* C17: every call that was made has issued at least one request; a search
\* with photosToLoad <= 0 issues exactly one and ends with its response.
C17_AtLeastOneRequest ==
    \A c \in CallId :
        Started(c) =>
            /\ Len(sent[c]) >= 1
            /\ kind[c] = "search" /\ photosToLoad <= 0 =>
                  /\ Len(sent[c]) = 1
                  /\ resps[c] # << >> => Done(c)

(* ---------------------------- C18 ------------------------------------- *)

\* The valid images the last fetched page of call c contributed.
LastPageCount(c) == Len(ValidOfPage(kind[c], LastResponse(c)))

\* C18: whenever a search issues a request after the first, the count
\* accumulated before it is below photosToLoad; so for a search that made
\* more than one request, the count without the last fetched page's valid
\* images is below photosToLoad.
C18_OvershootWithinOnePage ==
    \A c \in CallId :
        kind[c] = "search" =>
            /\ \A i \in 2..Len(sent[c]) : Len(ValidUpTo(c, i - 1)) < photosToLoad
            /\ Len(sent[c]) > 1 /\ NumResponses(c) = Len(sent[c]) =>
                  Len(acc[c]) - LastPageCount(c) < photosToLoad

\* A search returned more than photosToLoad photos after three requests,
\* having been one photo short of it before the last page.
C18_Witness ==
    \E c \in CallId :
        /\ kind[c] = "search" /\ pc[c] = "returned" /\ Len(sent[c]) = 3
        /\ Len(acc[c]) > photosToLoad
        /\ Len(acc[c]) - LastPageCount(c) = photosToLoad - 1

(* ---------------------------- C19 ------------------------------------- *)

\* Search call c returns in this step with a null error.
SearchReturnsClean(c) ==
    kind[c] = "search" /\ pc[c] = "awaiting" /\ pc'[c] = "returned" /\ error'[c] = NoError

\* C19: when a search returns with a null error, parameters.pageToken is
\* the nextPageToken of the last response; it is non-null exactly when the
\* threshold was reached with a further page announced, and null or absent
\* exactly when the source was exhausted.
C19_ReturnedTokenIsNextPage ==
    [][\A c \in CallId :
           SearchReturnsClean(c) =>
               LET last == resps'[c][Len(resps'[c])]
                   token == heap'[pref[c]].pageToken
               IN  /\ last.ok /\ last.result.js = "object"
                   /\ token = last.result.nextPageToken
                   /\ token \notin {Null, Undefined} <=>
                          /\ Len(acc'[c]) >= photosToLoad
                          /\ last.result.nextPageToken \notin {Null, Undefined}
                   /\ token \in {Null, Undefined} <=>
                          last.result.nextPageToken \in {Null, Undefined}]_vars

\* One search stopped on the threshold with the token of the next page in
\* its parameters, another ran out of pages below the threshold.
C19_Witness ==
    \E c, d \in CallId :
        /\ kind[c] = "search" /\ kind[d] = "search" /\ pref[c] # pref[d]
        /\ pc[c] = "returned" /\ error[c] = NoError /\ LastResolved(c)
        /\ pc[d] = "returned" /\ error[d] = NoError /\ LastResolved(d)
        /\ heap[pref[c]].pageToken = "tokA" /\ Len(acc[c]) >= photosToLoad
        /\ NumResponses(c) > 1
        /\ heap[pref[d]].pageToken = Null /\ Len(acc[d]) < photosToLoad

(* ---------------------------- C20 ------------------------------------- *)

\* The transport settles the outstanding request of call c.
Completes(c) ==
    \/ \E result \in SearchBodies : SearchResponse(c, result)
    \/ \E err \in Failures : SearchFailure(c, err)
    \/ \E result \in AlbumBodies : AlbumsResponse(c, result)
    \/ \E err \in Failures : AlbumsFailure(c, err)

\* Every request eventually completes; the remote's listings are finite
\* (Served).
LiveSpec == Spec /\ \A c \in CallId : WF_vars(Completes(c))

\* Call c ends in this step.
Ends(c) == pc[c] = "awaiting" /\ Done(c)'

\* What can end the loop of call c in this step: a failed request, a body
\* that cannot be read, a response without next-page token, or, in a
\* search only, a count that has reached photosToLoad.
EndingCause(c) ==
    LET last == resps'[c][Len(resps'[c])]
    IN  \/ ~last.ok
        \/ last.result.js # "object"
        \/ last.result.nextPageToken \in {Null, Undefined}
        \/ kind[c] = "search" /\ Len(acc'[c]) >= photosToLoad

\* C20: when every request completes and the remote's listing is finite,
\* every call that is waiting for a response eventually ends; and a call
\* ends only on a failure, on a response without next-page token or, for a
\* search, on reaching photosToLoad, so that against a remote that always
\* supplies a token an albums listing goes on requesting, and so does a
\* search as long as the pages bring it no closer to photosToLoad.
C20_TerminationDependsOnRemote ==
    /\ \A c \in CallId : (pc[c] = "awaiting") ~> Done(c)
    /\ [][\A c \in CallId : Ends(c) => EndingCause(c)]_vars

\* A search below the threshold took in a page with a token and no valid
\* image and issued its third request, while an albums listing went on
\* after a page with a token.
C20_Witness ==
    \E c, d \in CallId :
        /\ kind[c] = "search" /\ pc[c] = "awaiting" /\ Len(sent[c]) = 3
        /\ LastPageCount(c) = 0 /\ HasToken(c, 2) /\ photosToLoad > 0
        /\ kind[d] = "albums" /\ pc[d] = "returned" /\ NumResponses(d) = 1

====
